---- MODULE Spec2Model ----
(***************************************************************************)
(* A state-machine model of src/src/main.js (PDF Merger): the page         *)
(* collection `pages`, the selection `selectedPages`, the drag state       *)
(* `draggedIndex`, the page grid's cards, and the three asynchronous       *)
(* functions loadPDFs, renderThumbnails and downloadMerged, each cut at    *)
(* its awaits.  JavaScript runs one handler or one continuation at a time, *)
(* so every action is the code that runs between two suspension points.    *)
(*                                                                         *)
(* Positions in `pages`, card indices and draggedIndex are the code's      *)
(* 0-based numbers; a TLA+ sequence is 1-based, so pages[i] of the code is *)
(* pages[i + 1] here.                                                      *)
(***************************************************************************)
EXTENDS Integers, Sequences, FiniteSets, TLC

\* Bounds of the model.
MaxIds == 3        \* page records created over one run (crypto.randomUUID calls)
MaxBatch == 2      \* files handed to one loadPDFs call
MaxRenders == 1    \* renderThumbnails calls in flight at once
MaxEvents == 6     \* user events (clicks, drags, drops, file choices) handled over one run
MaxLiveEvents == 5 \* user events handled over one run, where the runs are followed to their end
MaxOverlap == 2    \* renderThumbnails calls in flight at once, where overlapping calls are followed
MaxHoles == 1      \* undefined entries that reorderPages may have put in pages

\* JavaScript's undefined, as an array entry: a value with no field `id`.
Undef == [undefined |-> TRUE]

\* draggedIndex = null: no index.
Null == -1

\* No source document is open.
NoDoc == "none"

(***************************************************************************)
(* The files a user can hand to the page.  f1 and f2 are different         *)
(* documents with the same name and the same byte length; f3 differs in    *)
(* name.  /Rotate of each page is what the document carries on disk.       *)
(***************************************************************************)
Files == {"f1", "f2", "f3"}

FileName(f) == IF f = "f3" THEN "b.pdf" ELSE "a.pdf"

\* pdfBytes.length
ByteLength(f) == IF f \in Files THEN 100 ELSE 0

PageRotations(f) ==
  CASE f = "f1" -> <<270, 0>>
    [] f = "f2" -> <<90>>
    [] OTHER    -> <<90>>

\* pdfDoc.getPageCount()
getPageCount(f) == Len(PageRotations(f))

Min(a, b) == IF a < b THEN a ELSE b

VARIABLES
  pages,          \* the array `pages`: page records, or Undef where splice put undefined
  selectedPages,  \* the Set `selectedPages` of page ids
  draggedIndex,   \* `draggedIndex`: Null or the index captured by the card being dragged
  nextId,         \* the ids handed out so far are 1 .. nextId - 1 (randomUUID never repeats)
  hidden,         \* which of dropZone, toolbar, pageGrid, progressOverlay carry class "hidden"
  cards,          \* children of pageGrid, in DOM order: [id, index] captured by createPageCard
  renders,        \* renderThumbnails calls suspended at their await: [i, owner]
  ld,             \* the loadPDFs call in flight, if any
  ex,             \* the downloadMerged call in flight, if any, and what the last one did
  events          \* user events handled so far, or Unbudgeted: the model's budget, no state of the page

vars == <<pages, selectedPages, draggedIndex, nextId, hidden, cards, renders, ld, ex, events>>

----------------------------------------------------------------------------
(* Pure helpers: the array and DOM primitives the handlers use.             *)

\* The live page records of an array (its entries that are not undefined).
Records(ps) == {ps[k] : k \in {j \in DOMAIN ps : ps[j] # Undef}}

Ids(ps) == {r.id : r \in Records(ps)}

HasUndef(ps) == \E k \in DOMAIN ps : ps[k] = Undef

Holes(ps) == Cardinality({k \in DOMAIN ps : ps[k] = Undef})

\* The entries before the first undefined one: what a forEach/filter callback
\* that reads `p.id` has visited when it throws a TypeError.
PrefixBeforeUndef(ps) ==
  IF HasUndef(ps)
    THEN SubSeq(ps, 1, (CHOOSE k \in DOMAIN ps :
                          ps[k] = Undef /\ \A j \in 1..(k - 1) : ps[j] # Undef) - 1)
    ELSE ps

\* Array.prototype.filter, for a predicate given as the set of ids to keep out.
RECURSIVE FilterOut(_, _)
FilterOut(ps, ids) ==
  IF ps = <<>> THEN <<>>
  ELSE IF Head(ps).id \in ids THEN FilterOut(Tail(ps), ids)
  ELSE <<Head(ps)>> \o FilterOut(Tail(ps), ids)

\* ps.splice(start, 1): the array that is left (start is clamped to the length,
\* and nothing is removed there).
SpliceOut(ps, start) ==
  IF start < Len(ps)
    THEN SubSeq(ps, 1, start) \o SubSeq(ps, start + 2, Len(ps))
    ELSE ps

SpliceTakenUnrotated(ps, start) ==
  IF start < Len(ps) /\ ps[start + 1] # Undef
    THEN [ps[start + 1] EXCEPT !.rotation = 0]
    ELSE Undef

\* const [movedPage] = ps.splice(start, 1): the removed entry, undefined when
\* splice removed nothing.
SpliceTaken(ps, start) == IF start < Len(ps) THEN ps[start + 1] ELSE Undef

\* ps.splice(start, 0, x): start is clamped to the length.
SpliceIn(ps, start, x) ==
  LET st == Min(start, Len(ps))
  IN  SubSeq(ps, 1, st) \o <<x>> \o SubSeq(ps, st + 1, Len(ps))

reorderPagesBySwap(ps, fromIndex, toIndex) ==
  IF fromIndex < Len(ps) /\ toIndex < Len(ps)
    THEN [k \in DOMAIN ps |-> IF k = fromIndex + 1 THEN ps[toIndex + 1]
                               ELSE IF k = toIndex + 1 THEN ps[fromIndex + 1]
                               ELSE ps[k]]
    ELSE SpliceIn(SpliceOut(ps, fromIndex), toIndex, SpliceTaken(ps, fromIndex))

reorderPagesOffByOne(ps, fromIndex, toIndex) ==
  SpliceIn(SpliceOut(ps, fromIndex),
           IF fromIndex < toIndex THEN toIndex - 1 ELSE toIndex,
           SpliceTaken(ps, fromIndex))

\* reorderPages(fromIndex, toIndex), lines 319-320: the new value of pages.
reorderPages(ps, fromIndex, toIndex) ==
  SpliceIn(SpliceOut(ps, fromIndex), toIndex, SpliceTaken(ps, fromIndex))

\* createPageCard(page, index): the card's closures capture page and index.
createPageCard(page, index) == [id |-> page.id, index |-> index]

\* updateUI(): the three class toggles (updateToolbarState only sets the
\* buttons' disabled flags, which the model does not carry).
updateUI(h, ps) ==
  [h EXCEPT !.dropZone = Len(ps) > 0,
            !.toolbar  = ~(Len(ps) > 0),
            !.pageGrid = ~(Len(ps) > 0)]

(***************************************************************************)
(* renderThumbnails() up to its first await, run on the array ps:          *)
(* pageGrid.innerHTML = '' and then, if there is a page 0, its card and    *)
(* the call of renderPageThumbnail, where the function suspends.           *)
(* createPageCard reads page.id, so an undefined entry makes the call      *)
(* reject.  status: "pending" (suspended at line 162), "resolved" (no      *)
(* page), "rejected" (TypeError).                                          *)
(***************************************************************************)
RenderStart(ps) ==
  IF Len(ps) = 0 THEN [cards |-> <<>>, status |-> "resolved"]
  ELSE IF ps[1] = Undef THEN [cards |-> <<>>, status |-> "rejected"]
  ELSE [cards |-> <<createPageCard(ps[1], 0)>>, status |-> "pending"]

\* The suspended calls after one more renderThumbnails() was started by `owner`.
WithRender(rs, start, owner) ==
  IF start.status = "pending" THEN Append(rs, [i |-> 0, owner |-> owner]) ELSE rs

RemoveAt(s, n) == SubSeq(s, 1, n - 1) \o SubSeq(s, n + 1, Len(s))

\* Fewer than `limit` renderThumbnails calls are suspended.
CanStartRenderWithin(limit) == Len(renders) < limit

CanStartRender == CanStartRenderWithin(MaxRenders)

----------------------------------------------------------------------------
\* No loadPDFs call is in flight.  While one is, files are the files still to
\* be read and i the page index of the next getPage; batch and atCall record,
\* for the properties below, the files it was called with and what pages was
\* then.
LdIdle == [pc |-> "idle", files |-> <<>>, i |-> 0, batch |-> <<>>, atCall |-> <<>>]

\* No downloadMerged call is in flight.  The last four fields say what the
\* last call did: alert() calls, downloads triggered, the await that threw, and
\* the copies it had made when it threw.
ExIdle(alerts, downloads, threwAt) ==
  [pc |-> "idle", atCall |-> <<>>, grouped |-> <<>>, groups |-> <<>>,
   srcDoc |-> NoDoc, copiedPages |-> <<>>, mergedPdf |-> <<>>,
   alerts |-> alerts, downloads |-> downloads, threwAt |-> threwAt, dropped |-> 0]

\* The budget of user events is not counted.
Unbudgeted == 0 - 1

\* One more user event is handled.
Event ==
  IF events = Unbudgeted
    THEN UNCHANGED events
    ELSE events < MaxEvents /\ events' = events + 1

\* Lines 11-13 and the page as index.html delivers it: only the drop zone shows.
Program ==
  /\ pages = <<>>
  /\ selectedPages = {}
  /\ draggedIndex = Null
  /\ nextId = 1
  /\ hidden = [dropZone |-> FALSE, toolbar |-> TRUE, pageGrid |-> TRUE,
               progressOverlay |-> TRUE]
  /\ cards = <<>>
  /\ renders = <<>>
  /\ ld = LdIdle
  /\ ex = ExIdle(0, 0, "none")

Init == Program /\ events = 0

InitEdit == Program /\ events = Unbudgeted

----------------------------------------------------------------------------
(* Selection: lines 254-286.  updatePageCards and updateToolbarState only   *)
(* set CSS classes and disabled flags; when updatePageCards throws (a card  *)
(* without a page), the change to selectedPages has already been made.      *)

\* selectedPages after toggleSelection(pageId), lines 255-259.
toggleSelection(sel, pageId) ==
  IF pageId \in sel THEN sel \ {pageId} ELSE sel \cup {pageId}

\* A click on the n-th card of the grid: lines 193-200.
ToggleSelect(n) ==
  /\ Event
  /\ ~hidden.pageGrid
  /\ n \in DOMAIN cards
  /\ selectedPages' = toggleSelection(selectedPages, cards[n].id)
  /\ UNCHANGED <<ex, pages, draggedIndex, nextId, hidden, cards, renders, ld>>

\* selectAll(), line 277: forEach stops with a TypeError at an undefined entry.
SelectAll ==
  /\ Event
  /\ ~hidden.toolbar
  /\ selectedPages' = selectedPages \cup Ids(PrefixBeforeUndef(pages))
  /\ UNCHANGED <<ex, pages, draggedIndex, nextId, hidden, cards, renders, ld>>

\* deselectAll(), line 283.
DeselectAll ==
  /\ Event
  /\ ~hidden.toolbar
  /\ selectedPages' = {}
  /\ UNCHANGED <<ex, pages, draggedIndex, nextId, hidden, cards, renders, ld>>

----------------------------------------------------------------------------
(* Rotation, deletion, clearing and reordering: lines 288-322.              *)

RotatedBy90NoWrap(rotation) == rotation + 90

\* page.rotation after line 292.
Rotated(rotation) == (rotation + 90) % 360

\* The record after the loop of lines 291-293 has passed over it.
RotateIfSelected(r, sel) ==
  IF r # Undef /\ r.id \in sel THEN [r EXCEPT !.rotation = Rotated(r.rotation)] ELSE r

\* downloadMerged's groups hold the page objects themselves, so a write to
\* page.rotation shows in them: the same write, applied to the captured records.
RotateInGroups(groups, sel) ==
  [g \in DOMAIN groups |->
     [groups[g] EXCEPT !.pages =
        [k \in DOMAIN groups[g].pages |->
           [groups[g].pages[k] EXCEPT !.page = RotateIfSelected(@, sel)]]]]

\* pages after lines 289-293 of rotateSelected(): the filter throws on an
\* undefined entry, before any rotation is written.
rotateSelected(ps, sel) ==
  IF HasUndef(ps) THEN ps
  ELSE [k \in DOMAIN ps |-> RotateIfSelected(ps[k], sel)]

\* rotateSelected(): the filter of line 289 throws on an undefined entry and
\* rejects the call before anything is written.  The objects rotated are the
\* selected ones that are in pages.
RotateSelectedWithin(limit) ==
  /\ Event
  /\ ~hidden.toolbar
  /\ CanStartRenderWithin(limit)
  /\ IF HasUndef(pages)
       THEN UNCHANGED <<pages, cards, renders, ex>>
       ELSE LET sel == selectedPages \cap Ids(pages)
                rotated == rotateSelected(pages, selectedPages)
                start == RenderStart(rotated)
            IN  /\ pages' = rotated
                /\ ex' = [ex EXCEPT !.groups = RotateInGroups(@, sel)]
                /\ cards' = start.cards
                /\ renders' = WithRender(renders, start, "none")
  /\ UNCHANGED <<selectedPages, draggedIndex, nextId, hidden, ld>>

RotateSelected == RotateSelectedWithin(MaxRenders)

SelectionKept(sel) == sel

\* selectedPages after line 301.
SelectionCleared(sel) == sel \ sel

\* pages after line 300.
RemoveSelected(ps, sel) == FilterOut(ps, sel)

\* pages and selectedPages after deleteSelected(), lines 300-301: the filter
\* throws on an undefined entry, before pages is assigned and before the
\* selection is cleared.
deleteSelected(ps, sel) ==
  IF HasUndef(ps)
    THEN [pages |-> ps, selectedPages |-> sel, threw |-> TRUE]
    ELSE [pages |-> RemoveSelected(ps, sel), selectedPages |-> SelectionCleared(sel),
          threw |-> FALSE]

\* A click on the delete button: deleteSelected(), lines 299-310.
DeleteSelectedWithin(limit) ==
  /\ Event
  /\ ~hidden.toolbar
  /\ LET after == deleteSelected(pages, selectedPages)
         start == RenderStart(after.pages)
     IN  /\ pages' = after.pages
         /\ selectedPages' = after.selectedPages
         /\ IF after.threw
              THEN UNCHANGED <<hidden, cards, renders>>
              ELSE IF Len(after.pages) = 0
                THEN /\ hidden' = updateUI(hidden, after.pages)
                     /\ UNCHANGED <<cards, renders>>
                ELSE /\ CanStartRenderWithin(limit)
                     /\ cards' = start.cards
                     /\ renders' = WithRender(renders, start, "none")
                     /\ UNCHANGED hidden
  /\ UNCHANGED <<ex, draggedIndex, nextId, ld>>

DeleteSelected == DeleteSelectedWithin(MaxRenders)

\* clearAll(), lines 313-315.
ClearAll ==
  /\ Event
  /\ ~hidden.toolbar
  /\ pages' = <<>>
  /\ selectedPages' = {}
  /\ hidden' = updateUI(hidden, <<>>)
  /\ UNCHANGED <<ex, draggedIndex, nextId, cards, renders, ld>>

\* dragstart on the n-th card, line 204.
DragStart(n) ==
  /\ Event
  /\ ~hidden.pageGrid
  /\ n \in DOMAIN cards
  /\ draggedIndex' = cards[n].index
  /\ UNCHANGED <<ex, pages, selectedPages, nextId, hidden, cards, renders, ld>>

\* dragend, line 211.  The browser sends it to the card that was dragged, in
\* the document or not, after the drop; a browser may also never send it.
DragEnd ==
  /\ Event
  /\ draggedIndex # Null
  /\ draggedIndex' = Null
  /\ UNCHANGED <<ex, pages, selectedPages, nextId, hidden, cards, renders, ld>>

\* drop on the n-th card, lines 226-233, and reorderPages, lines 318-322.
DropWithin(n, limit) ==
  /\ Event
  /\ ~hidden.pageGrid
  /\ n \in DOMAIN cards
  /\ draggedIndex # Null
  /\ draggedIndex # cards[n].index
  /\ CanStartRenderWithin(limit)
  /\ LET moved == reorderPages(pages, draggedIndex, cards[n].index)
         start == RenderStart(moved)
     IN  /\ Holes(moved) <= MaxHoles
         /\ pages' = moved
         /\ cards' = start.cards
         /\ renders' = WithRender(renders, start, "none")
  /\ UNCHANGED <<ex, selectedPages, draggedIndex, nextId, hidden, ld>>

Drop(n) == DropWithin(n, MaxRenders)


----------------------------------------------------------------------------
(* renderThumbnails after its await: lines 156-163.                         *)

LoadSettledOverlayLeft(h) == h

\* loadPDFs from the end of its try block on: `catch` alerts when something
\* was thrown, `finally` hides the overlay.  Neither calls updateUI.
LoadSettled(h) == [h EXCEPT !.progressOverlay = TRUE]

\* The n-th suspended renderThumbnails call resumes: i++, and either the next
\* page's card is made and appended to pageGrid, or the loop ends.  It reads the
\* variable `pages` as it is now.  A call that loadPDFs awaits takes loadPDFs
\* with it when it settles.
RenderResume(n) ==
  /\ UNCHANGED events
  /\ n \in DOMAIN renders
  /\ LET t == renders[n]
         i == t.i + 1
         more == i < Len(pages)
         threw == more /\ pages[i + 1] = Undef
         settled == ~more \/ threw
     IN  /\ cards' = IF more /\ ~threw
                       THEN Append(cards, createPageCard(pages[i + 1], i))
                       ELSE cards
         /\ renders' = IF settled THEN RemoveAt(renders, n)
                                  ELSE [renders EXCEPT ![n].i = i]
         /\ IF settled /\ t.owner = "load"
              THEN /\ ld' = LdIdle
                   /\ hidden' = LoadSettled(hidden)
              ELSE UNCHANGED <<ld, hidden>>
  /\ UNCHANGED <<pages, selectedPages, draggedIndex, nextId, ex>>

----------------------------------------------------------------------------
(* loadPDFs: lines 89-128.  The awaits of lines 94, 98 and 103 touch no     *)
(* state of the page and are one suspension ("open"); each getPage of line  *)
(* 107 is one ("getPage"); the await of line 121 is "render".  Every page   *)
(* count of Files is at least 1.                                            *)

RECURSIVE SumPageCounts(_)
SumPageCounts(files) ==
  IF files = <<>> THEN 0 ELSE getPageCount(Head(files)) + SumPageCounts(Tail(files))

Batches == UNION {[1..n -> Files] : n \in 1..MaxBatch}

NewPageFromLast(id, file, i) ==
  [id |-> id, sourceFile |-> FileName(file),
   sourcePageIndex |-> getPageCount(file) - 1 - i, pdfBytes |-> file, rotation |-> 0]

\* The record pushed at lines 109-116 (pdfJsPage is only used for drawing).
NewPage(id, file, i) ==
  [id |-> id, sourceFile |-> FileName(file), sourcePageIndex |-> i,
   pdfBytes |-> file, rotation |-> 0]

\* A drop on the drop zone or a change of the file input: lines 52-68, then
\* loadPDFs up to its first await.  The model follows one loadPDFs call at a
\* time.
LoadPDFs(files) ==
  /\ Event
  /\ ~hidden.dropZone
  /\ ld.pc = "idle"
  /\ (nextId - 1) + SumPageCounts(files) <= MaxIds
  /\ ld' = [pc |-> "open", files |-> files, i |-> 0, batch |-> files, atCall |-> pages]
  /\ hidden' = [hidden EXCEPT !.progressOverlay = FALSE]
  /\ UNCHANGED <<ex, pages, selectedPages, draggedIndex, nextId, cards, renders>>

\* The file's bytes were read and parsed by both libraries (ok), or one of the
\* three awaits rejected.
LoadOpened(ok) ==
  /\ UNCHANGED events
  /\ ld.pc = "open"
  /\ IF ok
       THEN /\ ld' = [ld EXCEPT !.pc = "getPage", !.i = 0]
            /\ UNCHANGED hidden
       ELSE /\ ld' = LdIdle
            /\ hidden' = LoadSettled(hidden)
  /\ UNCHANGED <<pages, selectedPages, draggedIndex, nextId, cards, renders, ex>>

\* pdfJsDoc.getPage(i + 1) settled.  On success the record is pushed; after the
\* last page of the last file come updateUI() and renderThumbnails().
LoadGotPageWithin(ok, limit) ==
  /\ UNCHANGED events
  /\ ld.pc = "getPage"
  /\ IF ~ok
       THEN /\ ld' = LdIdle
            /\ hidden' = LoadSettled(hidden)
            /\ UNCHANGED <<pages, nextId, cards, renders>>
       ELSE LET file == Head(ld.files)
                pushed == Append(pages, NewPage(nextId, file, ld.i))
                start == RenderStart(pushed)
            IN  /\ pages' = pushed
                /\ nextId' = nextId + 1
                /\ IF ld.i + 1 < getPageCount(file)
                     THEN /\ ld' = [ld EXCEPT !.i = ld.i + 1]
                          /\ UNCHANGED <<hidden, cards, renders>>
                     ELSE IF Len(ld.files) > 1
                       THEN /\ ld' = [ld EXCEPT !.pc = "open", !.files = Tail(@), !.i = 0]
                            /\ UNCHANGED <<hidden, cards, renders>>
                       ELSE /\ CanStartRenderWithin(limit)
                            /\ cards' = start.cards
                            /\ renders' = WithRender(renders, start, "load")
                            /\ IF start.status = "pending"
                                 THEN /\ ld' = [LdIdle EXCEPT !.pc = "render"]
                                      /\ hidden' = updateUI(hidden, pushed)
                                 ELSE /\ ld' = LdIdle
                                      /\ hidden' = LoadSettled(updateUI(hidden, pushed))
  /\ UNCHANGED <<selectedPages, draggedIndex, ex>>

LoadGotPage(ok) == LoadGotPageWithin(ok, MaxRenders)

----------------------------------------------------------------------------
(* downloadMerged: lines 324-382.  Suspension points: "create" (line 330),  *)
(* "load" (line 346), "copy" (line 349), "save" (line 366).  ex.atCall and  *)
(* ex.grouped record, for the properties below, what pages was when the     *)
(* button was pressed and when the groups were built.                       *)

\* The Map key of line 335.
Key(page) == <<page.sourceFile, ByteLength(page.pdfBytes)>>

\* Lines 333-340: the Map as the sequence of its entries in insertion order.
RECURSIVE GroupBySource(_, _, _)
GroupBySource(ps, index, groups) ==
  IF index >= Len(ps) THEN groups
  ELSE LET page == ps[index + 1]
           key == Key(page)
           entry == [page |-> page, index |-> index]
       IN  IF \E g \in DOMAIN groups : groups[g].key = key
             THEN LET g == CHOOSE g \in DOMAIN groups : groups[g].key = key
                  IN  GroupBySource(ps, index + 1,
                                    [groups EXCEPT ![g].pages = Append(@, entry)])
             ELSE GroupBySource(ps, index + 1,
                                Append(groups, [key |-> key, bytes |-> page.pdfBytes,
                                                pages |-> <<entry>>]))

\* The angle line 353 hands to setRotation, which stores it as it is.
RotationSum(existing, rotation) == existing + rotation

\* Lines 349-354 for one record: the page copied from srcDoc at the record's
\* sourcePageIndex, carrying that page's own /Rotate, plus the record's
\* rotation when it is not 0.  `for` names the record the copy was made for.
CopiedPage(srcDoc, page) ==
  LET existing == PageRotations(srcDoc)[page.sourcePageIndex + 1]
  IN  [for |-> page.id, bytes |-> srcDoc, pageIndex |-> page.sourcePageIndex,
       rotation |-> IF page.rotation # 0
                      THEN RotationSum(existing, page.rotation)
                      ELSE existing]

StoreByGroupOrder(copied, index, copy) ==
  LET next == Cardinality(DOMAIN copied)
  IN  [k \in (DOMAIN copied) \cup {next} |-> IF k = next THEN copy ELSE copied[k]]

\* copiedPages[index] = copiedPage, line 356.
StoreCopied(copied, index, copy) ==
  [k \in (DOMAIN copied) \cup {index} |-> IF k = index THEN copy ELSE copied[k]]

\* Lines 361-363: for..of walks 0 .. length-1 of the array.
ArrayLength(copied) ==
  IF DOMAIN copied = {} THEN 0
  ELSE (CHOOSE m \in DOMAIN copied : \A k \in DOMAIN copied : k <= m) + 1

AddedPages(copied) == [k \in 1..ArrayLength(copied) |-> copied[k - 1]]

\* What a call that threw at `threwAt` has done when it ends.
AfterCatchPartialDownload(threwAt) ==
  [ExIdle(1, 1, threwAt) EXCEPT !.dropped = Cardinality(DOMAIN ex.copiedPages)]

\* `catch` of lines 376-378: one alert, nothing downloaded.
AfterCatch(threwAt) ==
  [ExIdle(1, 0, threwAt) EXCEPT !.dropped = Cardinality(DOMAIN ex.copiedPages)]

\* `catch` and `finally` (hideProgress) of lines 376-381.
ExportFailed(threwAt) ==
  /\ ex' = AfterCatch(threwAt)
  /\ hidden' = [hidden EXCEPT !.progressOverlay = TRUE]

downloadMergedUnguarded ==
  /\ ex' = [ExIdle(0, 0, "none") EXCEPT !.pc = "create", !.atCall = pages]
  /\ hidden' = [hidden EXCEPT !.progressOverlay = FALSE]

\* downloadMerged() up to the await of line 330: the early return of line 325,
\* else showProgress and PDFDocument.create().
downloadMerged ==
  IF Len(pages) = 0
    THEN UNCHANGED <<ex, hidden>>
    ELSE /\ ex' = [ExIdle(0, 0, "none") EXCEPT !.pc = "create", !.atCall = pages]
         /\ hidden' = [hidden EXCEPT !.progressOverlay = FALSE]

\* A click on the download button, up to the await of line 330.  The model
\* follows one downloadMerged call at a time.
DownloadMerged ==
  /\ Event
  /\ ~hidden.toolbar
  /\ ex.pc = "idle"
  /\ downloadMerged
  /\ UNCHANGED <<pages, selectedPages, draggedIndex, nextId, cards, renders, ld>>

\* PDFDocument.create() resolved: the groups are built from `pages` as it is
\* now (page.sourceFile of an undefined entry throws), and the first source is
\* handed to PDFDocument.load.  With no page left there is no group, nothing is
\* added and the empty document goes to save().
ExportGrouped ==
  /\ UNCHANGED events
  /\ ex.pc = "create"
  /\ IF HasUndef(pages)
       THEN ExportFailed("group")
       ELSE LET groups == GroupBySource(pages, 0, <<>>)
            IN  /\ ex' = [ex EXCEPT !.pc = IF groups = <<>> THEN "save" ELSE "load",
                                    !.grouped = pages,
                                    !.groups = groups]
                /\ UNCHANGED hidden
  /\ UNCHANGED <<pages, selectedPages, draggedIndex, nextId, cards, renders, ld>>

\* PDFDocument.load(data.bytes) settled; on success copyPages is called for the
\* group's first record.
ExportLoaded(ok) ==
  /\ UNCHANGED events
  /\ ex.pc = "load"
  /\ IF ok
       THEN /\ ex' = [ex EXCEPT !.pc = "copy", !.srcDoc = Head(ex.groups).bytes]
            /\ UNCHANGED hidden
       ELSE ExportFailed("load")
  /\ UNCHANGED <<pages, selectedPages, draggedIndex, nextId, cards, renders, ld>>

\* copyPages settled for the first record left in the first group left.  It
\* rejects when srcDoc has no page at sourcePageIndex.  page.rotation is read
\* now.  Then comes the next record, the next group, or lines 361-366.
ExportCopied ==
  /\ UNCHANGED events
  /\ ex.pc = "copy"
  /\ LET group == Head(ex.groups)
         entry == Head(group.pages)
     IN  IF entry.page.sourcePageIndex >= getPageCount(ex.srcDoc)
           THEN ExportFailed("copy")
           ELSE LET copied == StoreCopied(ex.copiedPages, entry.index,
                                          CopiedPage(ex.srcDoc, entry.page))
                IN  /\ UNCHANGED hidden
                    /\ ex' =
                         IF Len(group.pages) > 1
                           THEN [ex EXCEPT !.copiedPages = copied,
                                           !.groups = <<[group EXCEPT !.pages = Tail(@)]>>
                                                      \o Tail(ex.groups)]
                         ELSE IF Len(ex.groups) > 1
                           THEN [ex EXCEPT !.pc = "load", !.srcDoc = NoDoc,
                                           !.copiedPages = copied,
                                           !.groups = Tail(@)]
                           ELSE [ex EXCEPT !.pc = "save", !.srcDoc = NoDoc,
                                           !.copiedPages = copied,
                                           !.groups = <<>>,
                                           !.mergedPdf = AddedPages(copied)]
  /\ UNCHANGED <<pages, selectedPages, draggedIndex, nextId, cards, renders, ld>>

\* mergedPdf.save() resolved: the download is triggered (line 374), and
\* `finally` hides the overlay.
ExportSaved ==
  /\ UNCHANGED events
  /\ ex.pc = "save"
  /\ ex' = ExIdle(0, 1, "none")
  /\ hidden' = [hidden EXCEPT !.progressOverlay = TRUE]
  /\ UNCHANGED <<pages, selectedPages, draggedIndex, nextId, cards, renders, ld>>

----------------------------------------------------------------------------
Next ==
  \/ \E n \in DOMAIN cards : ToggleSelect(n)
  \/ SelectAll
  \/ DeselectAll
  \/ RotateSelected
  \/ DeleteSelected
  \/ ClearAll
  \/ \E n \in DOMAIN cards : DragStart(n)
  \/ DragEnd
  \/ \E n \in DOMAIN cards : Drop(n)
  \/ \E n \in DOMAIN renders : RenderResume(n)
  \/ \E files \in Batches : LoadPDFs(files)
  \/ \E ok \in BOOLEAN : LoadOpened(ok)
  \/ \E ok \in BOOLEAN : LoadGotPage(ok)
  \/ DownloadMerged
  \/ ExportGrouped
  \/ \E ok \in BOOLEAN : ExportLoaded(ok)
  \/ ExportCopied
  \/ ExportSaved

\* The whole page, over runs of at most MaxEvents user events.
Spec == Init /\ [][Next]_vars

\* The whole page when every awaited call settles in the end: each suspended
\* loadPDFs, renderThumbnails and downloadMerged is resumed at some time.  Runs
\* of at most MaxLiveEvents user events.
Settling ==
  /\ WF_vars(\E ok \in BOOLEAN : LoadOpened(ok))
  /\ WF_vars(\E ok \in BOOLEAN : LoadGotPage(ok))
  /\ WF_vars(\E n \in DOMAIN renders : RenderResume(n))
  /\ WF_vars(ExportGrouped)
  /\ WF_vars(\E ok \in BOOLEAN : ExportLoaded(ok))
  /\ WF_vars(ExportCopied)
  /\ WF_vars(ExportSaved)

\* MaxLiveEvents user events are left of the budget.
InitLive == Program /\ events = MaxEvents - MaxLiveEvents

SpecLive == InitLive /\ [][Next]_vars /\ Settling

\* The page without its download button, over runs of any length.  No action
\* of downloadMerged writes pages, selectedPages, draggedIndex, cards, renders
\* or ld, and it shows and hides only the progress overlay.
NextEdit ==
  \/ \E n \in DOMAIN cards : ToggleSelect(n)
  \/ SelectAll
  \/ DeselectAll
  \/ RotateSelected
  \/ DeleteSelected
  \/ ClearAll
  \/ \E n \in DOMAIN cards : DragStart(n)
  \/ DragEnd
  \/ \E n \in DOMAIN cards : Drop(n)
  \/ \E n \in DOMAIN renders : RenderResume(n)
  \/ \E files \in Batches : LoadPDFs(files)
  \/ \E ok \in BOOLEAN : LoadOpened(ok)
  \/ \E ok \in BOOLEAN : LoadGotPage(ok)

SpecEdit == InitEdit /\ [][NextEdit]_vars

\* The page without its download button, with up to MaxOverlap
\* renderThumbnails calls in flight, over runs of at most MaxEvents user
\* events: a handler that calls renderThumbnails can run while an earlier call
\* is suspended at line 162.
NextRender ==
  \/ \E n \in DOMAIN cards : ToggleSelect(n)
  \/ RotateSelectedWithin(MaxOverlap)
  \/ DeleteSelectedWithin(MaxOverlap)
  \/ ClearAll
  \/ \E n \in DOMAIN cards : DragStart(n)
  \/ \E n \in DOMAIN cards : DropWithin(n, MaxOverlap)
  \/ \E n \in DOMAIN renders : RenderResume(n)
  \/ \E files \in Batches : LoadPDFs(files)
  \/ \E ok \in BOOLEAN : LoadOpened(ok)
  \/ \E ok \in BOOLEAN : LoadGotPageWithin(ok, MaxOverlap)

SpecRender == Init /\ [][NextRender]_vars

----------------------------------------------------------------------------
(* The module's functions called directly, on any array of page records.    *)
(* The page's own listeners reach toggleSelection only with the id of a     *)
(* visible card and downloadMerged only through a visible toolbar; what the *)
(* functions do for the other arguments is read off from calls made here.   *)

\* The record loadPDFs makes for the id-th page handed to it: pages 0 and 1 of
\* f1, then page 0 of f3.
InputRecord(id) ==
  NewPage(id, IF id <= 2 THEN "f1" ELSE "f3", IF id = 2 THEN 1 ELSE 0)

\* The arrays of up to MaxIds records with different ids, in any order.
InputPages ==
  UNION {{[k \in 1..n |-> InputRecord(order[k])] :
            order \in {f \in [1..n -> 1..MaxIds] :
                         \A a, b \in 1..n : a # b => f[a] # f[b]}} :
         n \in 0..MaxIds}

\* The page showing the array ps, all thumbnails drawn, nothing in flight.
Showing(ps) ==
  /\ pages = ps
  /\ draggedIndex = Null
  /\ nextId = MaxIds + 1
  /\ hidden = updateUI([dropZone |-> FALSE, toolbar |-> TRUE, pageGrid |-> TRUE,
                        progressOverlay |-> TRUE], ps)
  /\ cards = [k \in DOMAIN ps |-> createPageCard(ps[k], k - 1)]
  /\ renders = <<>>
  /\ ld = LdIdle
  /\ ex = ExIdle(0, 0, "none")
  /\ events = 0

\* toggleSelection(pageId) called with any value, lines 254-263.
ToggleSelectionCall(pageId) ==
  /\ Event
  /\ selectedPages' = toggleSelection(selectedPages, pageId)
  /\ UNCHANGED <<ex, pages, draggedIndex, nextId, hidden, cards, renders, ld>>

InitToggle ==
  /\ \E ps \in InputPages : Showing(ps)
  /\ selectedPages \in SUBSET Ids(pages)

NextToggle == \E pageId \in 1..MaxIds : ToggleSelectionCall(pageId)

SpecToggle == InitToggle /\ [][NextToggle]_vars

\* downloadMerged() called whatever the toolbar shows, lines 324-330.
DownloadMergedCall ==
  /\ Event
  /\ ex.pc = "idle"
  /\ downloadMerged
  /\ UNCHANGED <<pages, selectedPages, draggedIndex, nextId, cards, renders, ld>>

InitExport ==
  /\ \E ps \in InputPages : Showing(ps)
  /\ selectedPages = {}

NextExport ==
  \/ DownloadMergedCall
  \/ ExportGrouped
  \/ \E ok \in BOOLEAN : ExportLoaded(ok)
  \/ ExportCopied
  \/ ExportSaved

SpecExport == InitExport /\ [][NextExport]_vars


----------------------------------------------------------------------------
(* Properties.                                                              *)

\* C1: in every reachable state, every id in selectedPages is the id of a
\* record that is in pages now (no dangling selection).
C1_NoDanglingSelection == selectedPages \subseteq Ids(pages)

\* A record has been deleted and a record that is left is selected.
C1_SelectedAfterDelete ==
  /\ selectedPages # {}
  /\ pages # <<>>
  /\ Cardinality(Ids(pages)) < nextId - 1
  /\ ld.pc = "idle"


\* The copies that downloadMerged has put in mergedPdf when it awaits save():
\* what the downloaded file holds.
Exported == ex.pc = "save"

\* C2: a successful export of a collection of n records gives a document of
\* exactly n pages whose page k is the copy made for the record at position k
\* of the collection the groups were built from, whatever the order the groups
\* were processed in; for one untouched N-page document these are its pages
\* 0 .. N-1 in order.
C2_OutputInCollectionOrder ==
  Exported =>
    /\ Len(ex.mergedPdf) = Len(ex.grouped)
    /\ \A k \in DOMAIN ex.grouped : ex.mergedPdf[k].for = ex.grouped[k].id
    /\ \A f \in Files :
         (/\ Len(ex.grouped) = getPageCount(f)
          /\ \A k \in DOMAIN ex.grouped :
               ex.grouped[k].pdfBytes = f /\ ex.grouped[k].sourcePageIndex = k - 1)
         => \A k \in DOMAIN ex.grouped :
              ex.mergedPdf[k].bytes = f /\ ex.mergedPdf[k].pageIndex = k - 1

\* An export of three records in which a record of another document, kept in
\* another group, stands between two records of one document.
C2_InterleavedExport ==
  /\ Exported
  /\ Len(ex.grouped) = 3
  /\ ex.grouped[1].pdfBytes = ex.grouped[3].pdfBytes
  /\ Key(ex.grouped[2]) # Key(ex.grouped[1])
  /\ ex.mergedPdf[2].bytes = ex.grouped[2].pdfBytes

\* The step in which copyPages has resolved and the copy is stored.
CopyStored == ex.pc = "copy" /\ ex'.copiedPages # ex.copiedPages

\* C3: for every exported record whose rotation is not 0, the output page's
\* rotation is (the rotation the copied page has in its source document +
\* record.rotation) mod 360, and so one of 0, 90, 180, 270.
C3_RotationReducedMod360 ==
  [][CopyStored =>
       LET entry == Head(Head(ex.groups).pages)
           copy == ex'.copiedPages[entry.index]
           existing == PageRotations(copy.bytes)[copy.pageIndex + 1]
       IN  entry.page.rotation # 0 =>
             /\ copy.rotation = (existing + entry.page.rotation) % 360
             /\ copy.rotation \in {0, 90, 180, 270}]_vars

\* C4: export groups records by the byte buffer they reference, so every
\* output page is copied from the bytes of its own record's source document at
\* that record's sourcePageIndex.
C4_CopiedFromOwnSource ==
  /\ \A g \in DOMAIN ex.groups : \A k \in DOMAIN ex.groups[g].pages :
       ex.groups[g].pages[k].page.pdfBytes = ex.groups[g].bytes
  /\ Exported =>
       \A k \in DOMAIN ex.mergedPdf :
         /\ ex.mergedPdf[k].bytes = ex.grouped[k].pdfBytes
         /\ ex.mergedPdf[k].pageIndex = ex.grouped[k].sourcePageIndex


\* A step of loadPDFs that ends it in `catch` while it was opening a file or
\* getting one of its pages (a successful getPage pushes a record).
LoadOfFileFailed ==
  /\ ld'.pc = "idle"
  /\ ld.pc = "open" \/ (ld.pc = "getPage" /\ pages' = pages)

\* The ids of the records loadPDFs has pushed for the file it is working on.
IdsOfCurrentFile == (nextId - ld.i)..(nextId - 1)

\* C5: load is all-or-nothing per document: when loading a document fails
\* (parsing it, or getting any of its pages), the collection holds no record of
\* that document once loadPDFs ends, and every other record is as it was.
C5_LoadAllOrNothing ==
  [][LoadOfFileFailed =>
       /\ Ids(pages') \cap IdsOfCurrentFile = {}
       /\ \A r \in Records(pages) : r.id \notin IdsOfCurrentFile => r \in Records(pages')]_vars

\* C6: for the collection of every reachable state and every pair of indices
\* i, j in its bounds, reorderPages(i, j) followed by reorderPages(j, i) gives
\* the collection back.
C6_ReorderThereAndBack ==
  \A i, j \in 0..(Len(pages) - 1) :
    reorderPages(reorderPages(pages, i, j), j, i) = pages

\* Three records, none undefined, that reorderPages has brought out of the
\* order they were loaded in: indices that are adjacent and indices that are not.
C6_ReorderedThree ==
  /\ Len(pages) = 3
  /\ ~HasUndef(pages)
  /\ pages[1].id > pages[3].id

\* C7: a drop that calls reorderPages with an index outside the bounds of pages
\* is rejected: pages stays as it is, no record goes to a clamped position and
\* no undefined entry is put in.
C7_OutOfBoundsReorderRejected ==
  \A n \in DOMAIN cards :
    (/\ ~hidden.pageGrid
     /\ draggedIndex # Null
     /\ draggedIndex # cards[n].index
     /\ draggedIndex >= Len(pages) \/ cards[n].index >= Len(pages))
    => reorderPages(pages, draggedIndex, cards[n].index) = pages

\* ps without the entries whose record is selected, by position.
Unselected(ps, sel) ==
  {k \in DOMAIN ps : ~(ps[k] # Undef /\ ps[k].id \in sel)}

\* s is ps restricted to the positions in keep, in the same order.
IsRestriction(s, ps, keep) ==
  /\ Len(s) = Cardinality(keep)
  /\ \A k \in keep : s[Cardinality({j \in keep : j <= k})] = ps[k]

\* C8: whenever the delete button can be pressed, deleteSelected removes
\* exactly the records whose id is selected, keeps the others in their order
\* and leaves the selection empty; with nothing selected pages is unchanged and
\* with every id selected pages becomes empty.
C8_DeleteSelectedExact ==
  ~hidden.toolbar =>
    LET after == deleteSelected(pages, selectedPages)
    IN  /\ IsRestriction(after.pages, pages, Unselected(pages, selectedPages))
        /\ after.selectedPages = {}
        /\ selectedPages = {} => after.pages = pages
        /\ Ids(pages) \subseteq selectedPages => Ids(after.pages) = {}

\* C9: the export works on the collection as it was when the download button
\* was pressed: the output has that collection's records in that order, each
\* with the rotation it had then added to the copied page's own.
C9_ExportsSnapshotAtCall ==
  Exported =>
    /\ Len(ex.mergedPdf) = Len(ex.atCall)
    /\ \A k \in DOMAIN ex.atCall :
         /\ ex.mergedPdf[k].for = ex.atCall[k].id
         /\ ex.mergedPdf[k].rotation =
              CopiedPage(ex.mergedPdf[k].bytes, ex.atCall[k]).rotation

\* A step of downloadMerged itself: it moves on, or stores a copy.
ExportStep == ex'.pc # ex.pc \/ ex'.copiedPages # ex.copiedPages

\* C10: when reopening a source document fails, the whole export ends there
\* with one alert and no download, not even of the pages copied so far; and no
\* step of downloadMerged changes pages or selectedPages.
C10_FailedReopenAborts ==
  [][ExportStep =>
       /\ pages' = pages /\ selectedPages' = selectedPages
       /\ (ex.pc = "load" /\ ex'.threwAt = "load") =>
            /\ ex'.pc = "idle"
            /\ ex'.alerts = 1 /\ ex'.downloads = 0
            /\ ex'.mergedPdf = <<>> /\ ex'.copiedPages = <<>>]_vars

\* An export has ended at a failed reopen of its second source document, after
\* the pages of the first one were copied.
C10_SecondReopenFailed ==
  /\ ex.pc = "idle"
  /\ ex.threwAt = "load"
  /\ ex.dropped > 0


\* C11: a call of toggleSelection with an id that is the id of no record in
\* pages changes nothing: selectedPages and pages stay as they are.
C11_ToggleUnknownIsNoOp ==
  [][\A pageId \in 1..MaxIds :
       (/\ pageId \notin Ids(pages)
        /\ selectedPages' = toggleSelection(selectedPages, pageId))
       => selectedPages' = selectedPages /\ pages' = pages]_vars


\* C13: downloadMerged called while pages is empty does nothing: no overlay,
\* no document, no download, no alert, and no variable of the page changes.
C13_ExportOfNothingIsNoOp ==
  [][(Len(pages) = 0 /\ ex.pc = "idle") =>
       UNCHANGED <<pages, selectedPages, draggedIndex, nextId, hidden, cards,
                   renders, ld, ex>>]_vars

\* downloadMerged has been called on the empty array, and has returned.
C13_CalledOnEmpty ==
  /\ Len(pages) = 0
  /\ events > 0
  /\ ex = ExIdle(0, 0, "none")
  /\ hidden.progressOverlay


\* C12: with selectedPages held fixed, one rotateSelected sets the rotation of
\* every selected record to (rotation + 90) mod 360 and leaves the others'
\* as it is, and four of them give every selected record its rotation back.
C12_FourRotationsRestore ==
  ~hidden.toolbar =>
    LET once == rotateSelected(pages, selectedPages)
        twice == rotateSelected(once, selectedPages)
        thrice == rotateSelected(twice, selectedPages)
        fourTimes == rotateSelected(thrice, selectedPages)
    IN  \A k \in DOMAIN pages :
          pages[k] # Undef =>
            IF pages[k].id \in selectedPages
              THEN /\ once[k].rotation = (pages[k].rotation + 90) % 360
                   /\ fourTimes[k].rotation = pages[k].rotation
              ELSE once[k].rotation = pages[k].rotation


\* C14: after reorderPages(fromIndex, toIndex) with both indices in bounds, the
\* entry that was at fromIndex is at toIndex, the other entries are in the
\* order they were in, nothing is lost or doubled, and with fromIndex = toIndex
\* the array is as it was.
C14_MovedToTarget ==
  \A fromIndex, toIndex \in 0..(Len(pages) - 1) :
    LET moved == reorderPages(pages, fromIndex, toIndex)
    IN  /\ Len(moved) = Len(pages)
        /\ moved[toIndex + 1] = pages[fromIndex + 1]
        /\ RemoveAt(moved, toIndex + 1) = RemoveAt(pages, fromIndex + 1)
        /\ fromIndex = toIndex => moved = pages

\* The first of three loaded records has been moved to the end, over the two
\* others, which are in their order.
C14_FirstMovedLast ==
  /\ Len(pages) = 3
  /\ ~HasUndef(pages)
  /\ pages[3].id < pages[1].id
  /\ pages[1].id < pages[2].id


\* The pages of the files of a batch, in the order of the files and, within a
\* file, of its pages.
RECURSIVE PagesOf(_)
PagesOf(files) ==
  IF files = <<>> THEN <<>>
  ELSE [k \in 1..getPageCount(Head(files)) |-> [file |-> Head(files), index |-> k - 1]]
       \o PagesOf(Tail(files))

\* The step in which loadPDFs pushes the last record of its batch and goes on
\* to updateUI and renderThumbnails.
LoadSucceeded ==
  /\ ld.pc = "getPage"
  /\ ld'.pc \in {"render", "idle"}
  /\ pages' # pages

\* C15: a successful load of a batch leaves pages as it was when loadPDFs was
\* called, followed by one record per page of each document, in the order of
\* the batch and of the pages within each document, each with rotation 0.
C15_LoadAppendsInOrder ==
  [][LoadSucceeded =>
       LET before == ld.atCall
           added == PagesOf(ld.batch)
       IN  /\ Len(pages') = Len(before) + Len(added)
           /\ SubSeq(pages', 1, Len(before)) = before
           /\ \A k \in DOMAIN added :
                LET r == pages'[Len(before) + k]
                IN  /\ r.pdfBytes = added[k].file
                    /\ r.sourceFile = FileName(added[k].file)
                    /\ r.sourcePageIndex = added[k].index
                    /\ r.rotation = 0]_vars

\* A batch of a one-page and a two-page document has just been loaded.
C15_LoadedTwoDocuments ==
  /\ ld.pc = "render"
  /\ Len(pages) = 3
  /\ ~HasUndef(pages)
  /\ pages[1].pdfBytes # pages[2].pdfBytes
  /\ pages[2].pdfBytes = pages[3].pdfBytes
  /\ pages[2].sourcePageIndex = 0 /\ pages[3].sourcePageIndex = 1


\* The ids of the entries of an array, in order (0 for undefined).
IdsInOrder(ps) == [k \in DOMAIN ps |-> IF ps[k] = Undef THEN 0 ELSE ps[k].id]

\* A step of reorderPages or deleteSelected that changes pages: entries have
\* moved or gone, and no record has come.
ReorderedOrDeleted ==
  /\ IdsInOrder(pages') # IdsInOrder(pages)
  /\ Ids(pages') \subseteq Ids(pages)

\* C16: reorderPages and deleteSelected change the source document, the
\* sourcePageIndex and the rotation of no record that stays in pages.
C16_SurvivorsKeepFields ==
  [][ReorderedOrDeleted =>
       \A r \in Records(pages') :
         \E was \in Records(pages) :
           /\ was.id = r.id
           /\ was.pdfBytes = r.pdfBytes /\ was.sourceFile = r.sourceFile
           /\ was.sourcePageIndex = r.sourcePageIndex
           /\ was.rotation = r.rotation]_vars

\* Of three loaded records one has been deleted, and the two that are left
\* have been reordered, the first of them carrying a rotation.
C16_RotatedSurvivorMoved ==
  /\ nextId = 4
  /\ Len(pages) = 2
  /\ ~HasUndef(pages)
  /\ pages[1].id > pages[2].id
  /\ pages[1].rotation # 0


\* C17: in every reachable state the rotation of every record in pages is one
\* of 0, 90, 180, 270.
C17_RotationIsQuarterTurn ==
  \A r \in Records(pages) : r.rotation \in {0, 90, 180, 270}

\* A record has been rotated three times, another one not at all: the next
\* rotateSelected of the first takes it over 360.
C17_ThreeQuarterTurns ==
  /\ \E r \in Records(pages) : r.rotation = 270
  /\ \E r \in Records(pages) : r.rotation = 0


\* The cards renderThumbnails makes for an array: one per entry, in order, each
\* with the entry's index.
CardsOf(ps) == [k \in DOMAIN ps |-> createPageCard(ps[k], k - 1)]

\* C18: once no renderThumbnails call is in flight, the visible page grid
\* holds exactly one card per record of pages, in the order of pages, each
\* with the index its record has now; also when a handler started a render
\* while an earlier one was suspended.  (Stated for arrays without undefined
\* entries, on which no render rejects.)
C18_GridMatchesPages ==
  (renders = <<>> /\ ~hidden.pageGrid /\ ~HasUndef(pages)) => cards = CardsOf(pages)


\* C19: whenever no loadPDFs call is in flight, the view agrees with pages:
\* the toolbar and the page grid show and the drop zone is hidden exactly when
\* pages is not empty; also after a batch that failed at a later document
\* when the records of an earlier one had been pushed.
C19_ViewAgreesWithPages ==
  ld.pc = "idle" =>
    /\ hidden.dropZone = (Len(pages) > 0)
    /\ hidden.toolbar = (Len(pages) = 0)
    /\ hidden.pageGrid = (Len(pages) = 0)


\* C20: when every awaited call settles, a progress overlay that shows is
\* hidden again, whether the load or export that showed it succeeds or fails;
\* and the overlay does not show while neither a load nor an export is in
\* flight.
C20_OverlayHiddenAgain ==
  /\ [](ld.pc = "idle" /\ ex.pc = "idle" => hidden.progressOverlay)
  /\ (~hidden.progressOverlay ~> hidden.progressOverlay)

\* A load has succeeded and an export has failed at its first reopen; both
\* have ended and the overlay is hidden.
C20_HiddenAfterFailure ==
  /\ ld.pc = "idle"
  /\ ex.pc = "idle"
  /\ ex.threwAt = "load"
  /\ ex.dropped = 0
  /\ hidden.progressOverlay


====
